---- MODULE Spec2Model ----
(***************************************************************************)
(* km-command: command framing (command! / postcard), the fixed-capacity   *)
(* Path, the bitflags families and the libc ABI records.                   *)
(*                                                                         *)
(* Machine integers are modelled as the set of their set bit positions     *)
(* (a u32 is a subset of 0..31, a usize/isize a subset of 0..63, two's     *)
(* complement), so that every value of the width is representable and      *)
(* masking is set intersection.  Bytes are naturals in 0..255.             *)
(***************************************************************************)
EXTENDS Integers, Sequences, FiniteSets, TLC

VARIABLES
    origin,   \* codec: how the buffer came about
    cmd,      \* codec: the value the buffer was made from
    bytes,    \* codec: the buffer handed to id_from_bytes / from_bytes
    decoded,  \* codec: outcome of from_bytes
    peek,     \* codec: outcome of id_from_bytes
    sent,     \* wire: commands the checker has encoded, in order
    buf,      \* wire: bytes in flight, not yet consumed by the harness
    got,      \* wire: outcomes of the harness's from_bytes calls, in order
    path,     \* path: the contents of a Path (heapless String<256>)
    pathRes,  \* path: outcome of the last operation on it
    family,   \* flags: flag family of the last decode
    raw,      \* flags: raw integer handed to the decoder
    flagRes,  \* flags: outcome of the family's Deserialize
    dirent,   \* abi: a LibcDirent
    stat,     \* abi: a LibcStat (only mode is modelled)
    nameRes,  \* abi: outcome of LibcDirent::name
    kindD,    \* abi: LibcDirent::kind
    kindS     \* abi: LibcStat::kind

vars == <<origin, cmd, bytes, decoded, peek, sent, buf, got, path, pathRes,
          family, raw, flagRes, dirent, stat, nameRes, kindD, kindS>>

codecVars == <<origin, cmd, bytes, decoded, peek>>
wireVars  == <<sent, buf, got>>
pathVars  == <<path, pathRes>>
flagVars  == <<family, raw, flagRes>>
abiVars   == <<dirent, stat, nameRes, kindD, kindS>>

-----------------------------------------------------------------------------
(* Integers as bit sets *)

\* size_of::<usize>() on the 64-bit targets the harness runs on
WordBytes == 8
WordBits == WordBytes * 8
U32Bits == 32

\* the bits of a small natural
Bits(n) == {i \in 0..30 : (n \div (2 ^ i)) % 2 = 1}

RECURSIVE Val(_)
\* the natural a (small) bit set stands for
Val(S) == IF S = {} THEN 0
          ELSE LET i == CHOOSE j \in S : TRUE IN (2 ^ i) + Val(S \ {i})

Shr(S, k) == {i - k : i \in {j \in S : j >= k}}
Shl(S, k, w) == {i + k : i \in {j \in S : j + k < w}}
Low(S, k) == {i \in S : i < k}

Fill(n, b) == SubSeq([i \in 1..n |-> b], 1, n)
Drop(s, n) == SubSeq(s, n + 1, Len(s))
Take(s, n) == SubSeq(s, 1, n)

-----------------------------------------------------------------------------
(* postcard primitives used by the derived Serialize / Deserialize impls *)

\* outcomes of decoding one field, and of from_bytes
FieldOk(v, rest) == [tag |-> "Ok", val |-> v, rest |-> rest]
FieldErr == [tag |-> "Err"]
FieldPanic == [tag |-> "Panic"]

RECURSIVE varint(_)
\* postcard varint: 7 bits per byte, least significant group first, bit 7 = more
varint(S) ==
    IF Shr(S, 7) = {} THEN <<Val(Low(S, 7))>>
    ELSE <<Val(Low(S, 7)) + 128>> \o varint(Shr(S, 7))

varint_max(w) == (w + 6) \div 7
max_of_last_byte(w) == (2 ^ (w % 7)) - 1

RECURSIVE take_varint_loop(_, _, _, _)
take_varint_loop(data, i, out, w) ==
    IF i = varint_max(w) THEN FieldErr                 \* DeserializeBadVarint
    ELSE IF data = <<>> THEN FieldErr                  \* DeserializeUnexpectedEnd
    ELSE LET val == Head(data)
             out2 == out \cup Shl(Bits(val % 128), 7 * i, w)
         IN  IF val < 128
             THEN IF i = varint_max(w) - 1 /\ val > max_of_last_byte(w)
                  THEN FieldErr
                  ELSE FieldOk(out2, Tail(data))
             ELSE take_varint_loop(Tail(data), i + 1, out2, w)

take_varint(data, w) == take_varint_loop(data, 0, {}, w)

\* mutant of zig_zag: the isize written as if it were unsigned
zig_zag_plain(S) == S

\* i64 zig-zag: (n << 1) ^ (n >> 63), and its inverse (n >> 1) ^ -(n & 1)
zig_zag(S) ==
    LET sh == Shl(S, 1, WordBits)
    IN  IF (WordBits - 1) \in S THEN (0..(WordBits - 1)) \ sh ELSE sh
de_zig_zag(S) ==
    LET sh == Shr(S, 1)
    IN  IF 0 \in S THEN (0..(WordBits - 1)) \ sh ELSE sh

IsCont(b) == b >= 128 /\ b <= 191

\* length of the UTF-8 sequence a byte starts; 0 for a byte that starts none
Utf8Width(b) ==
    IF b < 128 THEN 1
    ELSE IF b >= 194 /\ b <= 223 THEN 2
    ELSE IF b >= 224 /\ b <= 239 THEN 3
    ELSE IF b >= 240 /\ b <= 244 THEN 4
    ELSE 0

\* the range the byte after the lead byte b must lie in
Utf8Second(b, c) ==
    CASE b = 224 -> c >= 160 /\ c <= 191
      [] b = 237 -> c >= 128 /\ c <= 159
      [] b = 240 -> c >= 144 /\ c <= 191
      [] b = 244 -> c >= 128 /\ c <= 143
      [] OTHER -> IsCont(c)

\* core::str::from_utf8(s).is_ok(): every lead byte is followed by its
\* continuation bytes, and every continuation byte belongs to a lead byte
from_utf8_ok(s) ==
    \A i \in 1..Len(s) :
        LET b == s[i]
        IN  IF IsCont(b)
            THEN \E k \in 1..3 :
                    /\ i - k >= 1
                    /\ Utf8Width(s[i - k]) > k
                    /\ \A j \in (i - k + 1)..(i - 1) : IsCont(s[j])
            ELSE /\ Utf8Width(b) > 0
                 /\ i + Utf8Width(b) - 1 <= Len(s)
                 /\ Utf8Width(b) > 1 => Utf8Second(b, s[i + 1])
                 /\ \A j \in (i + 2)..(i + Utf8Width(b) - 1) : IsCont(s[j])

-----------------------------------------------------------------------------
(* Path: heapless String<MAX_PATH_LEN> *)

MAX_PATH_LEN == 256

\* mutant of String_from_str: an oversized input is cut to the capacity
String_from_str_truncating(s) ==
    [tag |-> "Ok", val |-> IF Len(s) > MAX_PATH_LEN THEN Take(s, MAX_PATH_LEN) ELSE s]

\* heapless String::from_str: Err(()) when the input does not fit the capacity
String_from_str(s) ==
    IF Len(s) > MAX_PATH_LEN THEN [tag |-> "Err"] ELSE [tag |-> "Ok", val |-> s]

\* DerefMut for Path gives heapless String::push_str: Err(()) and no change
\* when the result would not fit
String_push_str(p, s) ==
    IF Len(p) + Len(s) > MAX_PATH_LEN THEN [tag |-> "Err", val |-> p]
    ELSE [tag |-> "Ok", val |-> p \o s]

\* <Path as Serialize>::serialize: serialize_str = varint(len) ++ bytes
Path_serialize(p) == varint(Bits(Len(p))) \o p

\* <Path as Deserialize>::deserialize:
\*   <&str>::deserialize(d).map(|s| Path(String::from_str(s).unwrap()))
Path_deserialize(data) ==
    LET n == take_varint(data, WordBits)
    IN  IF n.tag # "Ok" THEN FieldErr
        ELSE IF \E i \in n.val : i > 30 THEN FieldErr   \* longer than any buffer
        ELSE IF Val(n.val) > Len(n.rest) THEN FieldErr  \* DeserializeUnexpectedEnd
        ELSE LET s == Take(n.rest, Val(n.val))
                 r == String_from_str(s)
             IN  IF ~from_utf8_ok(s) THEN FieldErr      \* DeserializeBadUtf8
                 ELSE IF r.tag = "Err" THEN FieldPanic  \* unwrap() on Err(())
                 ELSE FieldOk(r.val, Drop(n.rest, Val(n.val)))

absolute(p) == Len(p) > 0 /\ p[1] = 47
relative(p) == ~absolute(p)

-----------------------------------------------------------------------------
(* bitflags families *)

OpenFlags ==
    [RDONLY |-> \o0, WRONLY |-> \o1, RDWR |-> \o2, CREAT |-> \o100,
     APPEND |-> \o200, TRUNC |-> \o400, DIRECTORY |-> \o1000000]

FileMode ==
    [USER_READ |-> \o400, USER_WRITE |-> \o200, USER_EXEC |-> \o100,
     GROUP_READ |-> \o040, GROUP_WRITE |-> \o020, GROUP_EXEC |-> \o010,
     OTHER_READ |-> \o004, OTHER_WRITE |-> \o002, OTHER_EXEC |-> \o001]

UnlinkatFlags == [REMOVEDIR |-> \h200]

ProtFlags == [READ |-> 2 ^ 0, WRITE |-> 2 ^ 1, EXECUTE |-> 2 ^ 2]

MmapFlags == [MAP_SHARED |-> 2 ^ 0, MAP_PRIVATE |-> 2 ^ 1, MAP_FIXED |-> 2 ^ 4]

Families == {"OpenFlags", "FileMode", "UnlinkatFlags", "ProtFlags", "MmapFlags"}

FlagDefs(fam) ==
    CASE fam = "OpenFlags" -> OpenFlags
      [] fam = "FileMode" -> FileMode
      [] fam = "UnlinkatFlags" -> UnlinkatFlags
      [] fam = "ProtFlags" -> ProtFlags
      [] fam = "MmapFlags" -> MmapFlags

\* width in bits of the family's underlying integer
FlagWidth(fam) == IF fam = "ProtFlags" THEN 8 ELSE U32Bits

\* Flags::all().bits(): the union of the named bits
all(fam) == UNION {Bits(FlagDefs(fam)[f]) : f \in DOMAIN FlagDefs(fam)}

\* mutant of from_bits_truncate: from_bits_retain, unknown bits kept
from_bits_retain(fam, S) == S

\* Flags::from_bits_truncate
from_bits_truncate(fam, S) == S \cap all(fam)

\* impl Serialize for the family: serialize_u32(self.bits()) / serialize_u8
Flags_serialize(fam, S) ==
    IF fam = "ProtFlags" THEN <<Val(S)>> ELSE varint(S)

\* impl Deserialize for the family:
\*   Ok(F::from_bits_truncate(u32::deserialize(d)?))   (u8 for ProtFlags)
Flags_deserialize(fam, data) ==
    LET n == IF fam = "ProtFlags"
             THEN IF data = <<>> THEN FieldErr
                  ELSE FieldOk(Bits(Head(data)), Tail(data))
             ELSE take_varint(data, U32Bits)
    IN  IF n.tag # "Ok" THEN FieldErr
        ELSE FieldOk(from_bits_truncate(fam, n.val), n.rest)

-----------------------------------------------------------------------------
(* command!: the commands, their ids and fields in declaration order *)

Commands ==
    {"Openat", "Close", "Fstat", "Getdents", "Linkat", "Unlinkat", "Mkdirat",
     "Getcwd", "Dup", "Chdir", "Brk", "Sbrk", "Mmap", "Munmap", "Mprotect"}

ID ==
    [Openat |-> 56, Close |-> 57, Fstat |-> 80, Getdents |-> 61, Linkat |-> 37,
     Unlinkat |-> 35, Mkdirat |-> 34, Getcwd |-> 17, Dup |-> 23, Chdir |-> 49,
     Brk |-> 214, Sbrk |-> 214, Mmap |-> 222, Munmap |-> 215, Mprotect |-> 5]

Fld(n, t) == [f |-> n, t |-> t]

Schema ==
    [Openat   |-> <<Fld("dirfd", "isize"), Fld("path", "Path"),
                    Fld("flags", "OpenFlags"), Fld("mode", "FileMode")>>,
     Close    |-> <<Fld("fd", "isize")>>,
     Fstat    |-> <<Fld("fd", "isize")>>,
     Getdents |-> <<Fld("fd", "isize"), Fld("count", "usize")>>,
     Linkat   |-> <<Fld("olddirfd", "isize"), Fld("oldpath", "Path"),
                    Fld("newdirfd", "isize"), Fld("newpath", "Path")>>,
     Unlinkat |-> <<Fld("dirfd", "isize"), Fld("path", "Path"),
                    Fld("flags", "UnlinkatFlags")>>,
     Mkdirat  |-> <<Fld("dirfd", "isize"), Fld("path", "Path"),
                    Fld("mode", "FileMode")>>,
     Getcwd   |-> <<>>,
     Dup      |-> <<Fld("oldfd", "isize")>>,
     Chdir    |-> <<Fld("path", "Path")>>,
     Brk      |-> <<Fld("addr", "usize")>>,
     Sbrk     |-> <<Fld("increment", "isize")>>,
     Mmap     |-> <<Fld("addr", "usize"), Fld("len", "usize"),
                    Fld("prot", "ProtFlags"), Fld("flags", "MmapFlags")>>,
     Munmap   |-> <<Fld("addr", "usize"), Fld("len", "usize")>>,
     Mprotect |-> <<Fld("start", "usize"), Fld("len", "usize"),
                    Fld("flags", "ProtFlags")>>]

\* $name::new(fields...)
new(T, fields) == [command |-> T, fields |-> fields]

\* serde Serialize of one field by its type (postcard flavour)
Field_serialize(t, v) ==
    CASE t = "isize" -> varint(zig_zag(v))
      [] t = "usize" -> varint(v)
      [] t = "Path"  -> Path_serialize(v)
      [] OTHER       -> Flags_serialize(t, v)

\* serde Deserialize of one field by its type (postcard flavour)
Field_deserialize(t, data) ==
    CASE t = "isize" ->
            LET n == take_varint(data, WordBits)
            IN  IF n.tag # "Ok" THEN FieldErr
                ELSE FieldOk(de_zig_zag(n.val), n.rest)
      [] t = "usize" -> take_varint(data, WordBits)
      [] t = "Path"  -> Path_deserialize(data)
      [] OTHER       -> Flags_deserialize(t, data)

RECURSIVE to_allocvec(_, _)
\* the derived Serialize: the fields in declaration order, nothing else
to_allocvec(sch, fields) ==
    IF sch = <<>> THEN <<>>
    ELSE Field_serialize(Head(sch).t, Head(fields))
             \o to_allocvec(Tail(sch), Tail(fields))

RECURSIVE take_fields(_, _, _)
\* the derived Deserialize: field after field, the first failure ends it
take_fields(sch, data, acc) ==
    IF sch = <<>> THEN FieldOk(acc, data)
    ELSE LET r == Field_deserialize(Head(sch).t, data)
         IN  IF r.tag # "Ok" THEN r
             ELSE take_fields(Tail(sch), r.rest, Append(acc, r.val))

\* cfg!(feature = "postcard"): the serialization format the crate is built with
FeaturePostcard == TRUE

\* $name::to_bytes (feature "checker")
to_bytes(c) ==
    IF FeaturePostcard THEN to_allocvec(Schema[c.command], c.fields) ELSE <<>>

Some(c, rest) == [tag |-> "Some", cmd |-> c, rest |-> rest]
None == [tag |-> "None"]
Panic == [tag |-> "Panic"]

\* mutant of from_bytes: postcard::from_bytes, which drops what follows the value
from_bytes_whole(T, data) ==
    LET r == take_fields(Schema[T], data, <<>>)
    IN  CASE r.tag = "Ok" -> Some(new(T, r.val), <<>>)
          [] r.tag = "Err" -> None
          [] r.tag = "Panic" -> Panic

\* $name::from_bytes (feature "harness"): take_from_bytes(data).ok()
from_bytes(T, data) ==
    IF FeaturePostcard
    THEN LET r == take_fields(Schema[T], data, <<>>)
         IN  CASE r.tag = "Ok" -> Some(new(T, r.val), r.rest)
               [] r.tag = "Err" -> None
               [] r.tag = "Panic" -> Panic
    ELSE None

\* mutant of to_le_bytes: most significant byte first (to_be_bytes)
to_be_bytes(S) ==
    [k \in 1..WordBytes |->
        Val({i - 8 * (WordBytes - k) : i \in {j \in S : j \div 8 = WordBytes - k}})]

\* usize::to_le_bytes / usize::from_le_bytes
to_le_bytes(S) ==
    [k \in 1..WordBytes |-> Val({i - 8 * (k - 1) : i \in {j \in S : j \div 8 = k - 1}})]
from_le_bytes(b) ==
    UNION {{8 * (k - 1) + j : j \in Bits(b[k])} : k \in 1..WordBytes}

\* id_to_bytes (feature "checker")
id_to_bytes(id) == to_le_bytes(id)

IdOk(id, rest) == [tag |-> "Ok", id |-> id, rest |-> rest]

\* id_from_bytes (feature "harness"): data[..size_of::<usize>()] panics on a
\* buffer shorter than a word; there is no failure value in the return type
id_from_bytes(data) ==
    IF Len(data) < WordBytes THEN Panic
    ELSE IdOk(from_le_bytes(Take(data, WordBytes)), Drop(data, WordBytes))

-----------------------------------------------------------------------------
(* ABI records *)

\* name: [u8; 256]
NAME_BUF_LEN == 256

\* size_of::<usize>() * 2 + size_of::<u16>() + size_of::<u8>()
MIN_SIZE == WordBytes * 2 + 2 + 1
MAX_SIZE == MIN_SIZE + 256
\* mutant of ONE_DIRENT_BUF_SIZE: room for an entry of any legal size
ONE_DIRENT_BUF_SIZE_any == MAX_SIZE
ONE_DIRENT_BUF_SIZE == MIN_SIZE * 2

FileKind ==
    [Unknown |-> 0, Fifo |-> 1, CharDevice |-> 2, Directory |-> 4,
     BlockDevice |-> 6, File |-> 8, Symlink |-> 10, Sockect |-> 12]

\* LibcDirent (ino and off take no part in any operation and are left out)
LibcDirent(reclen, type_, name) == [reclen |-> reclen, type_ |-> type_, name |-> name]

\* LibcDirent::kind
LibcDirent_kind(d) ==
    CASE d.type_ = 1 -> "Fifo"
      [] d.type_ = 2 -> "CharDevice"
      [] d.type_ = 4 -> "Directory"
      [] d.type_ = 6 -> "BlockDevice"
      [] d.type_ = 8 -> "File"
      [] d.type_ = 10 -> "Symlink"
      [] d.type_ = 12 -> "Sockect"
      [] OTHER -> "Unknown"

\* mutant of LibcDirent_name: the whole buffer, not the declared length
LibcDirent_name_whole(d) == [tag |-> "Ok", val |-> d.name]

\* LibcDirent::name: &self.name[..self.reclen as usize - Self::MIN_SIZE];
\* the subtraction underflows or the slice index is out of range otherwise
\* (from_utf8_unchecked: the bytes are returned as they are; the entries read
\* here carry ASCII names, for which the unchecked conversion is defined)
LibcDirent_name(d) ==
    IF d.reclen < MIN_SIZE \/ d.reclen - MIN_SIZE > NAME_BUF_LEN THEN Panic
    ELSE [tag |-> "Ok", val |-> Take(d.name, d.reclen - MIN_SIZE)]

\* LibcStat (only mode takes part in an operation)
LibcStat(mode) == [tag |-> "Stat", mode |-> mode]

\* LibcStat::mode
LibcStat_mode(st) == from_bits_truncate("FileMode", st.mode)

\* mutant of LibcStat_kind: the mode matched without masking the type bits
LibcStat_kind_unmasked(st) ==
    LET kind_bits == Val(st.mode)
    IN  CASE kind_bits = \o010000 -> "Fifo"
          [] kind_bits = \o020000 -> "CharDevice"
          [] kind_bits = \o040000 -> "Directory"
          [] kind_bits = \o060000 -> "BlockDevice"
          [] kind_bits = \o100000 -> "File"
          [] kind_bits = \o120000 -> "Symlink"
          [] kind_bits = \o140000 -> "Sockect"
          [] OTHER -> "Unknown"

\* LibcStat::kind
LibcStat_kind(st) ==
    LET kind_bits == Val(st.mode \cap Bits(\o170000))
    IN  CASE kind_bits = \o010000 -> "Fifo"
          [] kind_bits = \o020000 -> "CharDevice"
          [] kind_bits = \o040000 -> "Directory"
          [] kind_bits = \o060000 -> "BlockDevice"
          [] kind_bits = \o100000 -> "File"
          [] kind_bits = \o120000 -> "Symlink"
          [] kind_bits = \o140000 -> "Sockect"
          [] OTHER -> "Unknown"

-----------------------------------------------------------------------------
(* Inputs *)

\* how far past a capacity or a legal range the inputs go
MaxOver == 2
\* bytes that follow an identifier in a buffer
MaxRest == 2
\* commands packed back to back in one transmission
MaxInFlight == 2

AllOnes(w) == 0..(w - 1)
tmp_x == <<47, 116, 109, 112, 47, 120>>          \* "/tmp/x"
e_acute == <<100, 195, 169>>                      \* "d" + U+00E9, two-byte UTF-8

\* 0, 3, -1, -100 (AT_FDCWD), isize::MIN
ISizeSamples ==
    {{}, Bits(3), AllOnes(WordBits), AllOnes(WordBits) \ Bits(99), {WordBits - 1}}
\* 0, 127, 4096, usize::MAX
USizeSamples == {{}, Bits(127), Bits(4096), AllOnes(WordBits)}
PathSamples ==
    {<<>>, tmp_x, e_acute, Fill(MAX_PATH_LEN, 97),
     <<47>> \o Fill(MAX_PATH_LEN - 1, 97)}
FlagSamples(fam) ==
    {{}, all(fam)} \cup {Bits(FlagDefs(fam)[f]) : f \in DOMAIN FlagDefs(fam)}

\* values within each field type's valid domain
Samples(t) ==
    CASE t = "isize" -> ISizeSamples
      [] t = "usize" -> USizeSamples
      [] t = "Path"  -> PathSamples
      [] OTHER       -> FlagSamples(t)

OversizePaths == {Fill(MAX_PATH_LEN + k, 97) : k \in 1..MaxOver}
not_utf8 == <<47, 255, 254>>

\* what a sender that does not keep the field invariants can put on the wire
WireSamples(t) ==
    CASE t = "isize" -> {Bits(3)}
      [] t = "usize" -> {Bits(4096)}
      [] t = "Path"  -> OversizePaths \cup {tmp_x, not_utf8}
      [] OTHER       -> {AllOnes(FlagWidth(t))}

RECURSIVE FieldTuples(_, _)
FieldTuples(sch, valid) ==
    IF sch = <<>> THEN {<<>>}
    ELSE {<<v>> \o rest :
            v \in IF valid THEN Samples(Head(sch).t) ELSE WireSamples(Head(sch).t),
            rest \in FieldTuples(Tail(sch), valid)}

Records(T) == {new(T, f) : f \in FieldTuples(Schema[T], TRUE)}
Crafted(T) == {new(T, f) : f \in FieldTuples(Schema[T], FALSE)}

CREAT_WRONLY == Bits(OpenFlags.CREAT) \cup Bits(OpenFlags.WRONLY)
USER_RW == Bits(FileMode.USER_READ) \cup Bits(FileMode.USER_WRITE)

\* one command of every type, extremes included (a sequence: commands
\* of different types are not comparable as set elements)
WireRecords ==
    <<new("Openat", <<AllOnes(WordBits) \ Bits(99), tmp_x, CREAT_WRONLY, USER_RW>>),
     new("Close", <<Bits(3)>>),
     new("Fstat", <<AllOnes(WordBits)>>),
     new("Getdents", <<Bits(3), Bits(4096)>>),
     new("Linkat", <<Bits(3), tmp_x, {WordBits - 1}, e_acute>>),
     new("Unlinkat", <<Bits(3), tmp_x, all("UnlinkatFlags")>>),
     new("Mkdirat", <<{}, <<>>, {}>>),
     new("Getcwd", <<>>),
     new("Dup", <<Bits(127)>>),
     new("Chdir", <<Fill(MAX_PATH_LEN, 97)>>),
     new("Brk", <<AllOnes(WordBits)>>),
     new("Sbrk", <<{WordBits - 1}>>),
     new("Mmap", <<Bits(4096), AllOnes(WordBits), all("ProtFlags"), all("MmapFlags")>>),
     new("Munmap", <<Bits(4096), Bits(127)>>),
     new("Mprotect", <<{}, Bits(4096), Bits(ProtFlags.READ)>>)>>

IdSamples == {Bits(ID[T]) : T \in Commands} \cup {{}, Bits(256), {WordBits - 1}, AllOnes(WordBits)}

RECURSIVE SeqsUpTo(_, _)
SeqsUpTo(S, n) ==
    IF n = 0 THEN {<<>>}
    ELSE LET shorter == SeqsUpTo(S, n - 1)
         IN  shorter \cup {Append(q, x) : q \in {r \in shorter : Len(r) = n - 1}, x \in S}

RestSamples == SeqsUpTo({0, 214, 255}, MaxRest)

NoCall == [tag |-> "NoCall"]
NoCmd == [command |-> "NoCmd", fields |-> <<>>]

-----------------------------------------------------------------------------
(* Codec: one buffer, made by the checker side or by the transport, then   *)
(* read by the harness side with id_from_bytes and/or from_bytes           *)

InitCodec ==
    /\ origin = "none"
    /\ cmd = NoCmd
    /\ bytes = <<>>
    /\ decoded = NoCall
    /\ peek = NoCall

NewBuffer(o, c, b) ==
    /\ origin' = o
    /\ cmd' = c
    /\ bytes' = b
    /\ decoded' = NoCall
    /\ peek' = NoCall

\* checker: c.to_bytes()
ToBytes ==
    /\ origin = "none"
    /\ \E T \in Commands : \E c \in Records(T) :
        NewBuffer("to_bytes", c, to_bytes(c))

\* checker: id_to_bytes(T::ID) followed by c.to_bytes()
ToBytesFramed ==
    /\ origin = "none"
    /\ \E T \in Commands : \E c \in Records(T) :
        NewBuffer("framed", c, id_to_bytes(Bits(ID[T])) \o to_bytes(c))

\* checker: id_to_bytes(id), followed by arbitrary bytes
IdToBytes ==
    /\ origin = "none"
    /\ \E id \in IdSamples : \E rest \in RestSamples :
        NewBuffer("id", [command |-> "NoCmd", id |-> id, rest |-> rest],
                  id_to_bytes(id) \o rest)

\* transport: a buffer cut short of a word
ShortBuffer ==
    /\ origin = "none"
    /\ \E id \in IdSamples : \E k \in 0..(WordBytes - 1) :
        NewBuffer("short", [command |-> "NoCmd", id |-> id, rest |-> <<>>],
                  Take(id_to_bytes(id), k))

\* transport: well-formed field encodings of values outside the field invariants
Craft ==
    /\ origin = "none"
    /\ \E T \in Commands : \E c \in Crafted(T) :
        NewBuffer("crafted", c, to_allocvec(Schema[T], c.fields))

\* transport: a command's encoding cut short
Truncate ==
    /\ origin = "none"
    /\ \E i \in DOMAIN WireRecords : \E k \in 0..(Len(to_bytes(WireRecords[i])) - 1) :
        NewBuffer("truncated", WireRecords[i], Take(to_bytes(WireRecords[i]), k))

\* harness: id_from_bytes(bytes)
IdFromBytes ==
    /\ origin # "none"
    /\ peek.tag = "NoCall"
    /\ decoded.tag = "NoCall"
    /\ peek' = id_from_bytes(bytes)
    /\ UNCHANGED <<origin, cmd, bytes, decoded>>

\* harness: T::from_bytes on the buffer, or on what id_from_bytes left of it
FromBytes ==
    /\ origin \in {"to_bytes", "framed", "crafted", "truncated"}
    /\ decoded.tag = "NoCall"
    /\ peek.tag # "Panic"
    /\ decoded' = from_bytes(cmd.command, IF peek.tag = "Ok" THEN peek.rest ELSE bytes)
    /\ UNCHANGED <<origin, cmd, bytes, peek>>

-----------------------------------------------------------------------------
(* Wire: commands packed back to back, decoded one after the other *)

InitWire ==
    /\ sent = <<>>
    /\ buf = <<>>
    /\ got = <<>>

\* checker: append c.to_bytes() to the transmission, until the harness reads it
Send ==
    /\ Len(sent) < MaxInFlight
    /\ got = <<>>
    /\ \E i \in DOMAIN WireRecords :
        /\ sent' = Append(sent, WireRecords[i])
        /\ buf' = buf \o to_bytes(WireRecords[i])
    /\ UNCHANGED got

\* harness: decode the next command and keep the remainder
Recv ==
    /\ Len(got) < Len(sent)
    /\ \A k \in 1..Len(got) : got[k].tag = "Some"
    /\ LET r == from_bytes(sent[Len(got) + 1].command, buf)
       IN  /\ got' = Append(got, r)
           /\ buf' = IF r.tag = "Some" THEN r.rest ELSE buf
    /\ UNCHANGED sent

-----------------------------------------------------------------------------
(* Path: construction and mutation *)

PathInputs ==
    {Fill(n, 97) : n \in {0, 1, MAX_PATH_LEN - 1} \cup (MAX_PATH_LEN..(MAX_PATH_LEN + MaxOver))}
        \cup {<<47>> \o Fill(n, 97) : n \in {0, 5, MAX_PATH_LEN - 1, MAX_PATH_LEN}}

\* a quarter of the capacity, and the whole capacity
PushSamples == {Fill(MAX_PATH_LEN \div 4, 97), Fill(MAX_PATH_LEN, 97)}

\* Path(String::new())
InitPath ==
    /\ path = <<>>
    /\ pathRes = [op |-> "new", input |-> <<>>, tag |-> "Ok"]

\* String::from_str(s).map(Path)
FromStr ==
    \E s \in PathInputs :
        LET r == String_from_str(s)
        IN  /\ path' = IF r.tag = "Ok" THEN r.val ELSE path
            /\ pathRes' = [op |-> "from_str", input |-> s, tag |-> r.tag]

\* path.push_str(s) through DerefMut
PushStr ==
    \E s \in PushSamples :
        LET r == String_push_str(path, s)
        IN  /\ path' = r.val
            /\ pathRes' = [op |-> "push_str", input |-> s, tag |-> r.tag]

\* Path::deserialize on the encoding of the string s
Deserialize ==
    \E s \in PathInputs :
        LET r == Path_deserialize(Path_serialize(s))
        IN  /\ path' = IF r.tag = "Ok" THEN r.val ELSE path
            /\ pathRes' = [op |-> "deserialize", input |-> s, tag |-> r.tag]

-----------------------------------------------------------------------------
(* Flags: a raw integer arrives on the wire and is decoded *)

UnknownSamples(fam) ==
    LET u == AllOnes(FlagWidth(fam)) \ all(fam)
    IN  {{}, u, {FlagWidth(fam) - 1}, {CHOOSE i \in u : \A j \in u : i <= j}}

RawSamples(fam) ==
    IF fam = "ProtFlags" THEN SUBSET AllOnes(FlagWidth(fam))
    ELSE {A \cup B : A \in SUBSET all(fam), B \in UnknownSamples(fam)}

InitFlags ==
    /\ family = "OpenFlags"
    /\ raw = {}
    /\ flagRes = NoCall

\* F::deserialize on the encoding of the raw integer x
DecodeFlags ==
    /\ flagRes.tag = "NoCall"
    /\ \E fam \in Families : \E x \in RawSamples(fam) :
        /\ family' = fam
        /\ raw' = x
        /\ flagRes' = Flags_deserialize(fam, Flags_serialize(fam, x))

-----------------------------------------------------------------------------
(* ABI records: a directory entry is read, then the same file is stat'ed *)

hello == <<104, 101, 108, 108, 111>>

NameBuf(name, fill) == name \o Fill(NAME_BUF_LEN - Len(name), fill)

DirentSamples ==
    {LibcDirent(MIN_SIZE + n, 8, NameBuf(Fill(n, 97), fill)) :
        n \in 0..NAME_BUF_LEN, fill \in {0, 120}}
    \cup {LibcDirent(MIN_SIZE + Len(hello), t, NameBuf(hello, fill)) :
            t \in (0..15) \cup {255}, fill \in {0, 120}}
    \cup {LibcDirent(r, 4, NameBuf(hello, 0)) :
            r \in {0, MIN_SIZE - 1} \cup {MAX_SIZE + k : k \in 1..MaxOver}}

\* rw-r--r--, rwxr-xr-x, every bit below the type bits
PermSamples == {{}, Bits(\o644), Bits(\o755), Bits(\o7777)}

NoStat == [tag |-> "NoStat", mode |-> {}]

InitAbi ==
    /\ dirent = LibcDirent(MIN_SIZE, 0, Fill(NAME_BUF_LEN, 0))
    /\ stat = NoStat
    /\ nameRes = NoCall
    /\ kindD = "NoCall"
    /\ kindS = "NoCall"

\* an entry comes back from a directory read; name() and kind() are called on it
ReadDirent ==
    /\ kindD = "NoCall"
    /\ \E d \in DirentSamples :
        /\ dirent' = d
        /\ nameRes' = LibcDirent_name(d)
        /\ kindD' = LibcDirent_kind(d)
        /\ stat' = NoStat
        /\ kindS' = "NoCall"

\* the file the entry names is stat'ed: its mode carries the same type in the
\* type bits, and any permission bits
Fstat ==
    /\ kindD # "NoCall"
    /\ kindS = "NoCall"
    /\ dirent.type_ <= 15
    /\ \E perm \in PermSamples :
        /\ stat' = LibcStat(Shl(Bits(dirent.type_), 12, U32Bits) \cup perm)
        /\ kindS' = LibcStat_kind(stat')
    /\ UNCHANGED <<dirent, nameRes, kindD>>

-----------------------------------------------------------------------------
(* Specifications *)

Init == InitCodec /\ InitWire /\ InitPath /\ InitFlags /\ InitAbi

Next ==
    \/ ToBytes /\ UNCHANGED <<wireVars, pathVars, flagVars, abiVars>>
    \/ ToBytesFramed /\ UNCHANGED <<wireVars, pathVars, flagVars, abiVars>>
    \/ IdToBytes /\ UNCHANGED <<wireVars, pathVars, flagVars, abiVars>>
    \/ ShortBuffer /\ UNCHANGED <<wireVars, pathVars, flagVars, abiVars>>
    \/ Craft /\ UNCHANGED <<wireVars, pathVars, flagVars, abiVars>>
    \/ Truncate /\ UNCHANGED <<wireVars, pathVars, flagVars, abiVars>>
    \/ IdFromBytes /\ UNCHANGED <<wireVars, pathVars, flagVars, abiVars>>
    \/ FromBytes /\ UNCHANGED <<wireVars, pathVars, flagVars, abiVars>>

NextWire ==
    \/ Send /\ UNCHANGED <<codecVars, pathVars, flagVars, abiVars>>
    \/ Recv /\ UNCHANGED <<codecVars, pathVars, flagVars, abiVars>>

NextPath ==
    \/ FromStr /\ UNCHANGED <<codecVars, wireVars, flagVars, abiVars>>
    \/ PushStr /\ UNCHANGED <<codecVars, wireVars, flagVars, abiVars>>
    \/ Deserialize /\ UNCHANGED <<codecVars, wireVars, flagVars, abiVars>>

NextFlags == DecodeFlags /\ UNCHANGED <<codecVars, wireVars, pathVars, abiVars>>

NextAbi ==
    \/ ReadDirent /\ UNCHANGED <<codecVars, wireVars, pathVars, flagVars>>
    \/ Fstat /\ UNCHANGED <<codecVars, wireVars, pathVars, flagVars>>

\* command framing: one buffer, encoded and decoded
Spec == Init /\ [][Next]_vars
\* command framing: several commands in one buffer
SpecWire == Init /\ [][NextWire]_vars
SpecPath == Init /\ [][NextPath]_vars
SpecFlags == Init /\ [][NextFlags]_vars
SpecAbi == Init /\ [][NextAbi]_vars

-----------------------------------------------------------------------------
(* Properties *)

RECURSIVE Concat(_, _, _)
\* the encodings of sent[from..to], back to back
Concat(cs, from, to) ==
    IF from > to THEN <<>> ELSE to_bytes(cs[from]) \o Concat(cs, from + 1, to)

SameFields(a, b) ==
    /\ a.command = b.command
    /\ Len(a.fields) = Len(b.fields)
    /\ \A i \in 1..Len(a.fields) : a.fields[i] = b.fields[i]

\* C1: round trip. Whenever from_bytes has been applied to the bytes to_bytes
\* produced for a command whose fields are in their valid domain, it returned
\* Some, the decoded command equals the encoded one field by field, and the
\* remainder is empty.
RoundTrip ==
    (origin = "to_bytes" /\ peek.tag = "NoCall" /\ decoded.tag # "NoCall")
        => /\ decoded.tag = "Some"
           /\ SameFields(decoded.cmd, cmd)
           /\ decoded.rest = <<>>

\* an Openat with dirfd AT_FDCWD, a maximum-length path and every known flag
\* has gone through to_bytes and from_bytes
RoundTripWitness ==
    /\ origin = "to_bytes"
    /\ decoded.tag = "Some"
    /\ cmd.command = "Openat"
    /\ cmd.fields[1] = AllOnes(WordBits) \ Bits(99)
    /\ Len(cmd.fields[2]) = MAX_PATH_LEN
    /\ cmd.fields[3] = all("OpenFlags")
    /\ cmd.fields[4] = all("FileMode")

\* C2 as stated: id_from_bytes applied to the bytes of to_bytes returns the
\* command type's ID, whatever the fields hold.
IdOfToBytes ==
    (origin = "to_bytes" /\ peek.tag # "NoCall")
        => /\ peek.tag = "Ok"
           /\ peek.id = Bits(ID[cmd.command])

\* C2 amended: id_from_bytes applied to id_to_bytes(T::ID) followed by the bytes
\* of to_bytes returns T::ID and leaves exactly the bytes of to_bytes, whatever
\* the fields hold.
IdOfFramed ==
    (origin = "framed" /\ peek.tag # "NoCall")
        => /\ peek.tag = "Ok"
           /\ peek.id = Bits(ID[cmd.command])
           /\ peek.rest = to_bytes(cmd)

\* the identifier of a framed Mmap (222, more than seven bits) has been read
IdOfFramedWitness ==
    /\ origin = "framed"
    /\ cmd.command = "Mmap"
    /\ peek.tag = "Ok"
    /\ Val(peek.id) = 222
    /\ Len(peek.rest) > 0

\* C3: multi-record decode. Every decode of a transmission returned the command
\* that was encoded at that position; its remainder is exactly the encodings of
\* the commands packed after it, which is also what is left in flight; and the
\* decoded command is the one that decoding its encoding as a standalone buffer
\* gives (there with an empty remainder).
MultiRecord ==
    /\ buf = Concat(sent, Len(got) + 1, Len(sent))
    /\ \A k \in 1..Len(got) :
        /\ got[k].tag = "Some"
        /\ SameFields(got[k].cmd, sent[k])
        /\ got[k].rest = Concat(sent, k + 1, Len(sent))
        /\ LET alone == from_bytes(sent[k].command, to_bytes(sent[k]))
           IN  /\ alone.tag = "Some"
               /\ alone.rest = <<>>
               /\ SameFields(alone.cmd, got[k].cmd)

\* an Openat and a Chdir were packed into one buffer; decoding the first left
\* the second's bytes, and the second was decoded from them
MultiRecordWitness ==
    /\ Len(sent) >= 2
    /\ Len(got) >= 2
    /\ sent[1].command = "Openat"
    /\ sent[2].command = "Chdir"
    /\ got[1].rest = to_bytes(sent[2])
    /\ got[1].rest # <<>>
    /\ got[2].tag = "Some"

HasOversizedPath(c) ==
    \E i \in 1..Len(c.fields) :
        /\ Schema[c.command][i].t = "Path"
        /\ Len(c.fields[i]) > MAX_PATH_LEN
        /\ \A j \in 1..(i - 1) :
             Schema[c.command][j].t = "Path" => from_utf8_ok(c.fields[j])

\* C4: from_bytes on a buffer whose path field encodes a well-formed string
\* longer than MAX_PATH_LEN returns None: no command with a shortened path, and
\* no abort.
OversizedPathIsNone ==
    (origin = "crafted" /\ peek.tag = "NoCall" /\ decoded.tag # "NoCall"
        /\ HasOversizedPath(cmd))
        => decoded.tag = "None"

FlagMasking ==
    flagRes.tag # "NoCall"
        => /\ flagRes.tag = "Ok"
           /\ flagRes.rest = <<>>
           /\ \A i \in AllOnes(FlagWidth(family)) :
                i \in flagRes.val <=>
                    /\ i \in raw
                    /\ \E f \in DOMAIN FlagDefs(family) : i \in Bits(FlagDefs(family)[f])

\* all 32 bits set were decoded as OpenFlags
FlagMaskingWitness ==
    /\ flagRes.tag = "Ok"
    /\ family = "OpenFlags"
    /\ raw = AllOnes(U32Bits)
    /\ Val(flagRes.val) = \o1000703

ValidReclen(d) == d.reclen >= MIN_SIZE /\ d.reclen <= MAX_SIZE

\* C7: dirent name slicing. For MIN_SIZE <= reclen <= MAX_SIZE, name() returns
\* the first reclen - MIN_SIZE bytes of the name buffer, and returns the same
\* for any other content of the buffer from that index on.
DirentNameSlice ==
    (kindD # "NoCall" /\ ValidReclen(dirent))
        => /\ nameRes.tag = "Ok"
           /\ Len(nameRes.val) = dirent.reclen - MIN_SIZE
           /\ \A i \in 1..Len(nameRes.val) : nameRes.val[i] = dirent.name[i]
           /\ \A fill \in {0, 47, 255} :
                LibcDirent_name([dirent EXCEPT
                    !.name = NameBuf(Take(dirent.name, dirent.reclen - MIN_SIZE), fill)])
                  = nameRes

\* reclen = MIN_SIZE + 5, a 5-byte name, and other bytes after it in the buffer
DirentNameSliceWitness ==
    /\ dirent.reclen = MIN_SIZE + 5
    /\ nameRes.tag = "Ok"
    /\ nameRes.val = hello
    /\ dirent.name[6] = 120

KindTags == {FileKind[k] : k \in DOMAIN FileKind} \ {0}

\* C8: classification agreement. For a type tag t in 0..15 and a mode whose
\* type bits are t * 0o10000, LibcDirent::kind and LibcStat::kind return the same
\* FileKind, whatever the permission bits; the kind's discriminant is the tag
\* for the tags of the table, and the kind is Unknown for every other tag.
ClassificationAgreement ==
    /\ stat.tag = "Stat" => kindD = kindS
    /\ kindD # "NoCall" =>
        IF dirent.type_ \in KindTags
        THEN FileKind[kindD] = dirent.type_
        ELSE kindD = "Unknown"

\* a directory entry and a mode with the directory type bits and every
\* permission bit set
ClassificationWitness ==
    /\ stat.tag = "Stat"
    /\ dirent.type_ = 4
    /\ Bits(\o7777) \subseteq stat.mode
    /\ kindD = "Directory"
    /\ kindS = "Directory"

\* C9 as stated: ONE_DIRENT_BUF_SIZE holds one entry of any legal size.
OneDirentBufHoldsAny ==
    (kindD # "NoCall" /\ ValidReclen(dirent))
        => ONE_DIRENT_BUF_SIZE >= dirent.reclen

\* C9 amended: ONE_DIRENT_BUF_SIZE holds an entry exactly when its name is at
\* most MIN_SIZE bytes long, and never an entry with a non-empty name together
\* with a second one.
OneDirentBufHoldsOne ==
    (kindD # "NoCall" /\ ValidReclen(dirent))
        => /\ ONE_DIRENT_BUF_SIZE >= dirent.reclen <=> Len(nameRes.val) <= MIN_SIZE
           /\ Len(nameRes.val) >= 1 => dirent.reclen + MIN_SIZE + 1 > ONE_DIRENT_BUF_SIZE

\* the shortest entry that does not fit: a name of MIN_SIZE + 1 bytes
OneDirentBufWitness ==
    /\ kindD # "NoCall"
    /\ nameRes.tag = "Ok"
    /\ Len(nameRes.val) = MIN_SIZE + 1
    /\ dirent.reclen > ONE_DIRENT_BUF_SIZE

\* C10: id_from_bytes of id_to_bytes(id) followed by rest returns (id, rest), and
\* on a buffer shorter than a word it ends in a failure value, not in an abort.
IdReadTotal ==
    /\ (origin = "id" /\ peek.tag # "NoCall")
        => (peek.tag = "Ok" /\ peek.id = cmd.id /\ peek.rest = cmd.rest)
    /\ (Len(bytes) < WordBytes /\ peek.tag # "NoCall")
        => peek.tag \notin {"Ok", "Panic"}

====
